---- MODULE Spec2Model ----
(***************************************************************************)
(* Model of rapidityplot.cc: the sweep over string masses, each with its   *)
(* own generator and histogram, and the composition of the histograms in   *)
(* one plot.  Hist and HistPlot come from the Pythia8 headers; their       *)
(* behaviour is taken from the specification's Histogram and PlotComposer  *)
(* contracts.  Rapidities and masses are fixed-point numbers, Scale units  *)
(* to 1.0.                                                                 *)
(***************************************************************************)
EXTENDS Integers, Sequences, FiniteSets, TLC

VARIABLES pc, iMass, iEvent, event, i, dndy, hpl, exitCode,
          produced, nFill, nPrimary, fillLog, genFailed, failedConfigs,
          renderCount, initFailed, nEntity

vars == <<pc, iMass, iEvent, event, i, dndy, hpl, exitCode,
          produced, nFill, nPrimary, fillLog, genFailed, failedConfigs,
          renderCount, initFailed, nEntity>>

\* ------------------------------------------------------------ bounds
\* Events simulated per string mass (1000000 in the source, line 30).
nEvent == 2

\* Particles the generator hands out over a whole run, all events together.
MaxProduced == 2

\* ------------------------------------------------------------ units
Scale == 10 * 10 * 10

\* ------------------------------------------------------------ program data
masses == <<5 * Scale, 20 * Scale, 100 * Scale>>

plotColours == <<"steelblue", "seagreen", "indianred">>

binCount == 100

lowEdge == (0 - 10) * Scale

highEdge == 10 * Scale

histTitle == "Rapidity distribution dn/dy of primary hadrons"

\* Weight of a fill call that passes only the value.
FillWeight_Double == 1 + 1

FillWeight == 1

\* ------------------------------------------------------------ formatting
Digit(d) ==
    CASE d = 0 -> "0" [] d = 1 -> "1" [] d = 2 -> "2" [] d = 3 -> "3"
      [] d = 4 -> "4" [] d = 5 -> "5" [] d = 6 -> "6" [] d = 7 -> "7"
      [] d = 8 -> "8" [] d = 9 -> "9"

RECURSIVE Digits(_)
Digits(n) == IF n < 10 THEN Digit(n) ELSE Digits(n \div 10) \o Digit(n % 10)

\* A non-negative value rounded to `places` decimals, in 10^-places units.
RECURSIVE Pow10(_)
Pow10(k) == IF k = 0 THEN 1 ELSE 10 * Pow10(k - 1)

RECURSIVE Fraction(_, _)
Fraction(n, places) ==
    IF places = 0 THEN "" ELSE Fraction(n \div 10, places - 1) \o Digit(n % 10)

Fixed(val, places) ==
    LET unit == Scale \div Pow10(places)
        r == (2 * val + unit) \div (2 * unit)
    IN  Digits(r \div Pow10(places)) \o "." \o Fraction(r % Pow10(places), places)

to_string_2dp_1dp(val) == Fixed(val, 1)

to_string_2dp(val) == Fixed(val, 2)

\* ------------------------------------------------------------ Histogram
RECURSIVE SumOver(_, _)
SumOver(s, bins) ==
    IF bins = {} THEN 0
    ELSE LET b == CHOOSE x \in bins : TRUE
         IN  s[b] + SumOver(s, bins \ {b})

\* The sum of a sequence: the sum over its non-zero places.
SumSeq(s) == SumOver(s, { b \in DOMAIN s : s[b] # 0 })

NewHist(title, n, lo, hi) ==
    [title |-> title, binCount |-> n, lowEdge |-> lo, highEdge |-> hi,
     counts |-> [b \in 1..n |-> 0], underflow |-> 0, overflow |-> 0,
     entries |-> 0, sumValues |-> 0, sumSquares |-> 0]

\* The histogram variable outside the body of the mass loop.
NoHist == NewHist("", 0, 0, 0)

\* floor((value - lo) / (hi - lo) * n)
BinIndex(value, n, lo, hi) == ((value - lo) * n) \div (hi - lo)

Fill_HighInclusive(h, value, weight) ==
    LET idx == BinIndex(value, h.binCount, h.lowEdge, h.highEdge)
        tallied == [h EXCEPT !.entries = @ + 1,
                             !.sumValues = @ + weight * value,
                             !.sumSquares = @ + weight * value * value]
    IN  IF value < h.lowEdge THEN [tallied EXCEPT !.underflow = @ + weight]
        ELSE IF value > h.highEdge THEN [tallied EXCEPT !.overflow = @ + weight]
        ELSE IF value = h.highEdge
             THEN [tallied EXCEPT !.counts[h.binCount] = @ + weight]
        ELSE [tallied EXCEPT !.counts[idx + 1] = @ + weight]

Fill(h, value, weight) ==
    LET idx == BinIndex(value, h.binCount, h.lowEdge, h.highEdge)
        tallied == [h EXCEPT !.entries = @ + 1,
                             !.sumValues = @ + weight * value,
                             !.sumSquares = @ + weight * value * value]
    IN  IF value < h.lowEdge THEN [tallied EXCEPT !.underflow = @ + weight]
        ELSE IF value >= h.highEdge THEN [tallied EXCEPT !.overflow = @ + weight]
        ELSE [tallied EXCEPT !.counts[idx + 1] = @ + weight]

\* ------------------------------------------------------------ PlotComposer
NewComposer(title, xLabel, yLabel) ==
    [frameTitle |-> title, xLabel |-> xLabel, yLabel |-> yLabel,
     state |-> "Empty", series |-> << >>]

ComposerAdd(c, h, style, label) ==
    [c EXCEPT !.state = "Accumulating",
              !.series = Append(@, [histogram |-> h, styleToken |-> style,
                                    label |-> label])]

ComposerRender(c) == [c EXCEPT !.state = "Rendered"]

\* ------------------------------------------------------------ generator
\* The particles an event record can hold: status code and rapidity.
ParticleKinds ==
    { [status |-> 81, y |-> lowEdge - 1],
      [status |-> 89, y |-> highEdge],
      [status |-> 84, y |-> 0],
      [status |-> 85, y |-> highEdge - 1],
      [status |-> 80, y |-> Scale \div 10],
      [status |-> 90, y |-> lowEdge] }

Events(maxLen) == UNION { [1..n -> ParticleKinds] : n \in 0..maxLen }

\* What a failed generation may leave in the event record.
FailedRecords == { << >>, << [status |-> 84, y |-> 0] >> }

\* ------------------------------------------------------------ main
StatusInRange_From80(status) == status >= 80 /\ status < 90

StatusInRange(status) == status > 80 /\ status < 90

\* The primary post-fragmentation status codes.
IsPrimary(status) == status \in 81..89

CountPrimary(ev) == Cardinality({ k \in 1..Len(ev) : IsPrimary(ev[k].status) })

SetUpHistogram_Hoisted ==
    IF hpl.series = << >> THEN NewHist(histTitle, binCount, lowEdge, highEdge)
    ELSE hpl.series[Len(hpl.series)].histogram

SetUpHistogram == NewHist(histTitle, binCount, lowEdge, highEdge)

MassLoopCond_OffByOne == iMass < Len(masses) - 1

MassLoopCond == iMass < Len(masses)

Init ==
    /\ pc = "MassLoop"
    /\ iMass = 0
    /\ iEvent = 0
    /\ event = << >>
    /\ i = 0
    /\ dndy = NoHist
    /\ hpl = NewComposer("Rapidity distributions of primary hadrons for differing string energies", "y", "n")
    /\ exitCode = -1
    /\ produced = 0
    /\ nFill = 0
    /\ nPrimary = 0
    /\ fillLog = << >>
    /\ genFailed = FALSE
    /\ failedConfigs = {}
    /\ renderCount = 0
    /\ initFailed = FALSE
    /\ nEntity = 0

\* Line 45: the test of the loop over the masses.
MassLoopEnter ==
    /\ UNCHANGED <<initFailed, nEntity>>
    /\ pc = "MassLoop"
    /\ MassLoopCond
    /\ pc' = "Init"
    /\ UNCHANGED <<iMass, iEvent, event, i, dndy, hpl, exitCode, produced,
                   nFill, nPrimary, fillLog, genFailed, failedConfigs,
                   renderCount>>

MassLoopExit ==
    /\ UNCHANGED <<initFailed, nEntity>>
    /\ pc = "MassLoop"
    /\ ~MassLoopCond
    /\ pc' = "Plot"
    /\ UNCHANGED <<iMass, iEvent, event, i, dndy, hpl, exitCode, produced,
                   nFill, nPrimary, fillLog, genFailed, failedConfigs,
                   renderCount>>

\* Lines 49-73: the generator is set up and initialised, the histogram booked.
InitOK ==
    /\ nEntity' = 0
    /\ UNCHANGED initFailed
    /\ pc = "Init"
    /\ dndy' = SetUpHistogram
    /\ iEvent' = 0
    /\ event' = << >>
    /\ i' = 0
    /\ nFill' = 0
    /\ nPrimary' = 0
    /\ fillLog' = << >>
    /\ genFailed' = FALSE
    /\ pc' = "EventLoop"
    /\ UNCHANGED <<iMass, hpl, exitCode, produced, failedConfigs, renderCount>>

InitFail_Break ==
    /\ initFailed' = TRUE
    /\ UNCHANGED nEntity
    /\ pc = "Init"
    /\ pc' = "Plot"
    /\ UNCHANGED <<iMass, iEvent, event, i, dndy, hpl, exitCode, produced,
                   nFill, nPrimary, fillLog, genFailed, failedConfigs,
                   renderCount>>

\* Line 69: initialisation fails and main returns 1.
InitFail ==
    /\ initFailed' = TRUE
    /\ UNCHANGED nEntity
    /\ pc = "Init"
    /\ exitCode' = 1
    /\ pc' = "Done"
    /\ UNCHANGED <<iMass, iEvent, event, i, dndy, hpl, produced,
                   nFill, nPrimary, fillLog, genFailed, failedConfigs,
                   renderCount>>

\* Lines 76-86: an event is generated.
NextOK ==
    /\ UNCHANGED initFailed
    /\ pc = "EventLoop"
    /\ iEvent < nEvent
    /\ \E ev \in Events(MaxProduced - produced) :
          /\ event' = ev
          /\ produced' = produced + Len(ev)
          /\ nPrimary' = nPrimary + CountPrimary(ev)
          /\ nEntity' = nEntity + Len(ev)
    /\ i' = 0
    /\ fillLog' = << >>
    /\ pc' = "Particles"
    /\ UNCHANGED <<iMass, iEvent, dndy, hpl, exitCode, nFill, genFailed,
                   failedConfigs, renderCount>>

NextFail_Return ==
    /\ UNCHANGED <<initFailed, nEntity>>
    /\ pc = "EventLoop"
    /\ iEvent < nEvent
    /\ event' \in FailedRecords
    /\ genFailed' = TRUE
    /\ failedConfigs' = failedConfigs \cup {iMass}
    /\ exitCode' = 1
    /\ pc' = "Done"
    /\ UNCHANGED <<iMass, iEvent, i, dndy, hpl, produced, nFill,
                   nPrimary, fillLog, renderCount>>

\* Lines 86-89: generation fails and the event loop is left.
NextFail ==
    /\ UNCHANGED <<initFailed, nEntity>>
    /\ pc = "EventLoop"
    /\ iEvent < nEvent
    /\ event' \in FailedRecords
    /\ genFailed' = TRUE
    /\ failedConfigs' = failedConfigs \cup {iMass}
    /\ pc' = "Add"
    /\ UNCHANGED <<iMass, iEvent, i, dndy, hpl, exitCode, produced, nFill,
                   nPrimary, fillLog, renderCount>>

\* Line 76: all events of this mass are done.
EventLoopExit ==
    /\ UNCHANGED <<initFailed, nEntity>>
    /\ pc = "EventLoop"
    /\ iEvent >= nEvent
    /\ pc' = "Add"
    /\ UNCHANGED <<iMass, iEvent, event, i, dndy, hpl, exitCode, produced,
                   nFill, nPrimary, fillLog, genFailed, failedConfigs,
                   renderCount>>

\* Line 96: the value handed to fill.
FillArg == event[i + 1].y

\* Lines 92-98: one particle of the event record.
ParticleFill ==
    /\ UNCHANGED <<initFailed, nEntity>>
    /\ pc = "Particles"
    /\ i < Len(event)
    /\ StatusInRange(event[i + 1].status)
    /\ dndy' = Fill(dndy, FillArg, FillWeight)
    /\ nFill' = nFill + 1
    /\ fillLog' = Append(fillLog, FillArg)
    /\ i' = i + 1
    /\ UNCHANGED <<pc, iMass, iEvent, event, hpl, exitCode, produced,
                   nPrimary, genFailed, failedConfigs, renderCount>>

ParticleSkip ==
    /\ UNCHANGED <<initFailed, nEntity>>
    /\ pc = "Particles"
    /\ i < Len(event)
    /\ ~StatusInRange(event[i + 1].status)
    /\ i' = i + 1
    /\ UNCHANGED <<pc, iMass, iEvent, event, dndy, hpl, exitCode, produced,
                   nFill, nPrimary, fillLog, genFailed, failedConfigs,
                   renderCount>>

\* Lines 92, 76: the particle loop ends, the event counter advances.
ParticlesDone ==
    /\ UNCHANGED <<initFailed, nEntity>>
    /\ pc = "Particles"
    /\ i >= Len(event)
    /\ iEvent' = iEvent + 1
    /\ pc' = "EventLoop"
    /\ UNCHANGED <<iMass, event, i, dndy, hpl, exitCode, produced, nFill,
                   nPrimary, fillLog, genFailed, failedConfigs, renderCount>>

AddStyle == "--," \o plotColours[iMass + 1]

AddLabelOf(c) == to_string_2dp(masses[c + 1]) \o " GeV string"

AddLabel == AddLabelOf(iMass)

\* Lines 101-108: the histogram is added to the plot; the loop body ends.
Add ==
    /\ UNCHANGED <<initFailed, nEntity>>
    /\ pc = "Add"
    /\ hpl' = ComposerAdd(hpl, dndy, AddStyle, AddLabel)
    /\ dndy' = NoHist
    /\ iMass' = iMass + 1
    /\ pc' = "MassLoop"
    /\ UNCHANGED <<iEvent, event, i, exitCode, produced, nFill, nPrimary,
                   fillLog, genFailed, failedConfigs, renderCount>>

\* Lines 111-112: the plot is written and main returns 0.
Plot ==
    /\ UNCHANGED <<initFailed, nEntity>>
    /\ pc = "Plot"
    /\ hpl' = ComposerRender(hpl)
    /\ renderCount' = renderCount + 1
    /\ exitCode' = 0
    /\ pc' = "Done"
    /\ UNCHANGED <<iMass, iEvent, event, i, dndy, produced, nFill, nPrimary,
                   fillLog, genFailed, failedConfigs>>

Next ==
    \/ MassLoopEnter
    \/ MassLoopExit
    \/ InitOK
    \/ InitFail
    \/ NextOK
    \/ NextFail
    \/ EventLoopExit
    \/ ParticleFill
    \/ ParticleSkip
    \/ ParticlesDone
    \/ Add
    \/ Plot

Spec == Init /\ [][Next]_vars

\* ------------------------------------------------------------ properties
InLoopBody == pc \in {"EventLoop", "Particles", "Add"}

Buckets(h) == h.counts \o <<h.underflow, h.overflow>>

Tally(h) == SumSeq(h.counts) + h.underflow + h.overflow

Changed(h1, h2) ==
    LET b1 == Buckets(h1)
        b2 == Buckets(h2)
    IN  { k \in 1..Len(b1) : b2[k] # b1[k] }

FillCall == nFill' = nFill + 1

SeriesHist(k) == hpl.series[k].histogram

IsZeroHist(h) ==
    /\ h.entries = 0 /\ h.underflow = 0 /\ h.overflow = 0
    /\ h.sumValues = 0 /\ h.sumSquares = 0
    /\ \A b \in 1..h.binCount : h.counts[b] = 0

\* The y of the primary hadrons of a sequence of particles, in order.
RECURSIVE PrimaryY(_)
PrimaryY(ps) ==
    IF ps = << >> THEN << >>
    ELSE (IF Head(ps).status \in 81..89 THEN <<Head(ps).y>> ELSE << >>)
         \o PrimaryY(Tail(ps))

\* C1. Count conservation: the histogram of the running configuration and
\* every histogram handed to the plot has sum(counts) + underflow + overflow
\* equal to entries; for the running one entries is the number of fill calls
\* made so far; and a fill call raises exactly one bucket, by exactly 1.
C1_CountConservation ==
    /\ [](/\ Tally(dndy) = dndy.entries
          /\ InLoopBody => dndy.entries = nFill
          /\ \A k \in 1..Len(hpl.series) :
                Tally(SeriesHist(k)) = SeriesHist(k).entries)
    /\ [][FillCall =>
            /\ Cardinality(Changed(dndy, dndy')) = 1
            /\ \A k \in Changed(dndy, dndy') :
                  Buckets(dndy')[k] = Buckets(dndy)[k] + 1
            /\ dndy'.entries = dndy.entries + 1]_vars

\* A histogram that took an out-of-range and an in-range fill, held by the
\* plot while the next configuration's histogram takes fills of its own.
C1_Witness ==
    /\ Len(hpl.series) = 1
    /\ SeriesHist(1).overflow = 1 /\ SumSeq(SeriesHist(1).counts) = 1
    /\ SeriesHist(1).entries = 2
    /\ pc = "Add" /\ nFill = 0

\* The bucket a value belongs to, without a division: "under", "over", or
\* the bin whose edges enclose it (left edge included, right edge excluded).
BucketOf(v, n, lo, hi) ==
    IF v < lo THEN n + 1
    ELSE IF v >= hi THEN n + 2
    ELSE CHOOSE b \in 1..n :
            /\ (b - 1) * (hi - lo) <= (v - lo) * n
            /\ (v - lo) * n < b * (hi - lo)

ExampleHist == NewHist("", 10, 0, 10 * Scale)

\* C2. Bin placement: a fill of value v raises bin floor((v - lowEdge) /
\* (highEdge - lowEdge) * binCount) when lowEdge <= v < highEdge, underflow
\* when v < lowEdge and overflow when v >= highEdge, a value on an interior
\* edge going to the upper bin; with 10 bins over [0, 10], 5.0 lands in bin
\* 5, 9.999 in bin 9, 10.0 in overflow and -0.001 in underflow.
C2_BinPlacement ==
    /\ [](/\ Fill(ExampleHist, 5 * Scale, 1).counts[5 + 1] = 1
          /\ Fill(ExampleHist, 10 * Scale - 1, 1).counts[9 + 1] = 1
          /\ Fill(ExampleHist, 10 * Scale, 1).overflow = 1
          /\ Fill(ExampleHist, 0 - 1, 1).underflow = 1)
    /\ [][FillCall =>
            Changed(dndy, dndy') =
              {BucketOf(FillArg, dndy.binCount, dndy.lowEdge, dndy.highEdge)}]_vars

\* Fills at an interior edge (0.0, bin 50) and at the high edge (overflow).
C2_Witness ==
    /\ InLoopBody
    /\ dndy.counts[50 + 1] = 1
    /\ dndy.overflow = 1

C4_InitializationFailedSignalled ==
    initFailed =>
        /\ pc = "Done"
        /\ exitCode = 1
        /\ dndy = NoHist
        /\ Len(hpl.series) = iMass
        /\ renderCount = 0
        /\ hpl.state # "Rendered"

\* Initialisation fails for the second configuration.
C4_Witness == initFailed /\ iMass = 1 /\ Len(hpl.series) = 1

LifecycleSteps ==
    { <<"Empty", "Empty">>, <<"Empty", "Accumulating">>,
      <<"Accumulating", "Accumulating">>, <<"Accumulating", "Rendered">>,
      <<"Rendered", "Rendered">> }

\* C5 as stated: every run ends with the plot rendered, render happens at
\* most once and only when every configuration's series has been added.
C5_Original ==
    /\ pc = "Done" => hpl.state = "Rendered"
    /\ renderCount <= 1
    /\ hpl.state = "Rendered" => Len(hpl.series) = Len(masses)

\* C5, amended. The plot's states follow Empty -> Accumulating -> Rendered
\* and no other order; render happens at most once, only after the add of
\* every configuration, and nothing is added after it; a run in which every
\* initialisation succeeds ends Rendered, and a run that a failed
\* initialisation ends is left Empty or Accumulating, never rendered.
C5_Lifecycle ==
    /\ [](/\ renderCount <= 1
          /\ hpl.state = "Rendered" <=> renderCount = 1
          /\ hpl.state = "Empty" <=> hpl.series = << >>
          /\ hpl.state = "Rendered" =>
                (Len(hpl.series) = Len(masses) /\ iMass = Len(masses))
          /\ (pc = "Done" /\ ~initFailed) => hpl.state = "Rendered"
          /\ (pc = "Done" /\ initFailed) => hpl.state # "Rendered")
    /\ [][/\ <<hpl.state, hpl'.state>> \in LifecycleSteps
          /\ hpl.state = "Rendered" => hpl' = hpl]_vars

\* The whole sweep was added and rendered.
C5_Witness ==
    pc = "Done" /\ hpl.state = "Rendered" /\ Len(hpl.series) = Len(masses)

\* C6 as stated: after a failure that follows k successful trials the
\* histogram has entries <= k.
C6_Original == (genFailed /\ pc = "Add") => dndy.entries <= iEvent

\* C6, amended. After a failure that follows k successful trials the
\* histogram has one entry per primary hadron of those k trials, so at most
\* as many entries as the k trials hold particles (which may exceed k); and
\* with entries > 0 the mean's divisor is non-zero and the variance
\* entries * sumSquares - sumValues^2 is not negative.
C6_PartialFill ==
    (genFailed /\ pc = "Add") =>
        /\ dndy.entries = nPrimary
        /\ dndy.entries <= nEntity
        /\ dndy.entries > 0 =>
              dndy.entries * dndy.sumSquares - dndy.sumValues * dndy.sumValues >= 0

\* One successful trial with two primary hadrons, then a failure.
C6_Witness ==
    /\ genFailed /\ pc = "Add"
    /\ iEvent = 1
    /\ dndy.entries = 2

ExpectedLabels == <<"5.00 GeV string", "20.00 GeV string", "100.00 GeV string">>

ExpectedStyles == <<"--,steelblue", "--,seagreen", "--,indianred">>

\* C8. Series order and labelling: the k-th series of the plot is the k-th
\* configuration's, with its label and its colour in the style token, built
\* from a histogram with 100 bins over [-10, 10]; at render there is exactly
\* one series per configuration.
C8_SeriesOrder ==
    /\ Len(hpl.series) <= Len(ExpectedLabels)
    /\ \A k \in 1..Len(hpl.series) :
          /\ hpl.series[k].label = ExpectedLabels[k]
          /\ hpl.series[k].styleToken = ExpectedStyles[k]
          /\ SeriesHist(k).binCount = 100
          /\ SeriesHist(k).lowEdge = (0 - 10) * Scale
          /\ SeriesHist(k).highEdge = 10 * Scale
    /\ hpl.state = "Rendered" => Len(hpl.series) = Len(ExpectedLabels)

\* The plot is rendered with its three series.
C8_Witness == hpl.state = "Rendered" /\ Len(hpl.series) = 3 /\ pc = "Done"

\* C9. Status filter: within an event the values handed to fill are, in
\* order, the rapidities of the particles already visited whose status is in
\* 81..89; between events the number of fill calls of the configuration is
\* the number of such particles in its successful trials; the record left by
\* a failed generation is never filled from.
C9_StatusFilter ==
    /\ pc = "Particles" =>
          /\ i <= Len(event)
          /\ fillLog = PrimaryY(SubSeq(event, 1, i))
          /\ nFill + Len(PrimaryY(SubSeq(event, i + 1, Len(event)))) = nPrimary
    /\ pc \in {"EventLoop", "Add"} => nFill = nPrimary
    /\ InLoopBody => dndy.entries = nFill

\* An event with a skipped status-80 particle and a filled status-89 one.
C9_Witness ==
    /\ pc = "Particles" /\ i = Len(event) /\ Len(event) = 2
    /\ event[1].status = 80 /\ event[2].status = 89
    /\ fillLog = <<highEdge>>

\* C10. Isolation: a configuration starts from an all-zero histogram, a fill
\* changes no histogram but the running configuration's, and a series once
\* added is left as it is by every later step.
C10_Isolation ==
    [][/\ Len(hpl'.series) >= Len(hpl.series)
       /\ \A k \in 1..Len(hpl.series) : hpl'.series[k] = hpl.series[k]
       /\ (pc = "Init" /\ pc' = "EventLoop") => IsZeroHist(dndy')
       /\ (pc = "Add" /\ pc' = "MassLoop") =>
             hpl'.series[Len(hpl'.series)].histogram = dndy]_vars

\* A later configuration fills while an earlier, filled series is held.
C10_Witness ==
    /\ iMass >= 1 /\ pc = "Particles"
    /\ SeriesHist(1).entries > 0
    /\ dndy.entries > 0

====
